---- MODULE Spec2Model ----
(***************************************************************************)
(* The per-container tracker of manager/container.go (containerData): the  *)
(* housekeeping loop, the load-reader loop, the timeout guard              *)
(* doWithTimeout, Stop, the adaptive intervals and the load smoother.      *)
(*                                                                         *)
(* Time is kept relative.  For a timestamp field x of the source the model *)
(* stores time.Since(x) in ticks, advanced by the action Tick and          *)
(* saturated where the code no longer distinguishes larger values.  One    *)
(* tick is one minute.                                                     *)
(***************************************************************************)
EXTENDS Integers, Sequences, FiniteSets, TLC

\* ------------------------------------------------------------------ bounds

\* Housekeeping iterations one behaviour may start.
MaxHkIter == 1
\* Load-reader iterations one behaviour may start.
MaxLdIter == 1
\* Calls of Stop one behaviour may make.
MaxStopCalls == 1
\* *PanicTimeout in ticks (the flag's default is one minute).
PanicTimeout == 1

\* ------------------------------------------------------- program constants

\* time.Minute of allowErrorLogging, in ticks.
Minute == 1
\* Fixed-point unit of the float64 load average: loadAvg = value / Scale,
\* ten units to one milli-load.
Scale == 10 * 1000
\* Ages of loadAvgLastProbeTime are saturated here: exp(-dt/10) is 0 from then on.
MaxDt == 2

Min(a, b) == IF a < b THEN a ELSE b

\* ------------------------------------------------------------------- state

VARIABLES
    env,          \* what the tracker's surroundings may do (fixed per behaviour)
    flags,        \* the command line flags read by the tracker
    c,            \* the containerData fields
    handler,      \* the container.ContainerHandler behind c.handler
    reader,       \* the cpuload.CpuLoadReader behind c.loadReader
    memoryCache,  \* the samples the shared cache holds for this container
    hk,           \* the goroutine running doHousekeepingLoop
    hkw,          \* the goroutine doWithTimeout starts for updateStats
    ld,           \* the goroutine running doLoadReaderLoop
    ldw,          \* the goroutine doWithTimeout starts for doLoadReaderIteration
    stopper,      \* the caller of Stop
    aborted,      \* the process has panicked
    callers,      \* the goroutines calling GetInfo
    storage,      \* the influxdbStorage and the goroutines calling its AddStats
    call          \* a call of GetProcessList or of the smoother, and its result

vars ==
    <<env, flags, c, handler, reader, memoryCache, hk, hkw, ld, ldw, stopper, aborted,
      callers, storage, call>>

\* The tracker's own state.
tracker ==
    <<flags, c, handler, reader, memoryCache, hk, hkw, ld, ldw, stopper, aborted, callers>>

\* What neither loop of the tracker nor Stop touches.
outside == <<callers, storage, call>>

\* ----------------------------------------------------------------- values

\* info.LoadStats as GetCpuLoad returns it.
LoadStats(r, u, w) == [NrRunning |-> r, NrUninterruptible |-> u, NrIoWait |-> w]
ZeroLoadStats == LoadStats(0, 0, 0)

\* What GetStats returns: nil or a sample.  val stands for every scalar field
\* the handler fills but the Timestamp, which is the number of the GetStats
\* call; LoadAverage, TaskStats and CustomMetrics are attached by updateStats.
NoStats == [nil |-> TRUE]
StatVals == {1, 2}
HandlerStats(v) ==
    [nil |-> FALSE, val |-> v, Timestamp |-> 0, LoadAverage |-> 0,
     TaskStats |-> ZeroLoadStats, CustomMetrics |-> FALSE]

\* ------------------------------------------------------------ DurationMin

\* Mutant: the comparison is flipped.
DurationMin_Flipped(d1, d2) == IF d1 < d2 THEN d2 ELSE d1

DurationMin(d1, d2) == IF d1 < d2 THEN d1 ELSE d2

\* --------------------------------------------------------- the shared cache

\* Samples the cache keeps per container (RecentStats is asked for 2).
CacheDepth == 2

\* memoryCache.AddStats: the sample becomes the newest one.
CacheAdd(cache, stats) ==
    LET all == Append(cache, stats)
    IN  IF Len(all) > CacheDepth THEN SubSeq(all, Len(all) - CacheDepth + 1, Len(all))
        ELSE all

\* memoryCache.RecentStats(name, empty, empty, n): the newest n samples,
\* newest first.
RecentStats(cache, n) ==
    LET k == Min(n, Len(cache))
    IN  [i \in 1..k |-> cache[Len(cache) - i + 1]]

\* memoryCache.RemoveContainer: the container's samples are dropped; it
\* reports no error.
RemoveContainer(cache) == [cache |-> <<>>, err |-> FALSE]

\* ContainerStats.StatsEq: every field but the timestamp is equal.
StatsEq(a, b) == [a EXCEPT !.Timestamp = 0] = [b EXCEPT !.Timestamp = 0]

\* ---------------------------------------------------------- rate limiter

\* allowErrorLogging's test: time.Since(c.lastErrorTime) > time.Minute.
AllowErrorLoggingTest(since) == since > Minute

\* ------------------------------------------------------ adaptive intervals

\* Mutant: the interval adapts whether or not dynamic housekeeping is allowed.
AdjustHousekeepingInterval_AlwaysDynamic(cc, fl, cache, recentErr) ==
    IF recentErr THEN cc.housekeepingInterval
    ELSE LET stats == RecentStats(cache, 2)
         IN  IF Len(stats) < 2 THEN cc.housekeepingInterval
             ELSE IF StatsEq(stats[1], stats[2])
                  THEN DurationMin(cc.housekeepingInterval * 2, cc.maxHousekeepingInterval)
                  ELSE fl.HousekeepingInterval

\* Mutant: a single cached sample counts as a no-change signal.
AdjustHousekeepingInterval_DoublesOnFirst(cc, fl, cache, recentErr) ==
    IF ~cc.allowDynamicHousekeeping THEN cc.housekeepingInterval
    ELSE IF recentErr THEN cc.housekeepingInterval
    ELSE LET stats == RecentStats(cache, 2)
         IN  IF Len(stats) < 2 \/ StatsEq(stats[1], stats[2])
             THEN DurationMin(cc.housekeepingInterval * 2, cc.maxHousekeepingInterval)
             ELSE fl.HousekeepingInterval

\* adjustHousekeepingInterval: the housekeeping interval after one cycle.
\* recentErr: RecentStats failed.
AdjustHousekeepingInterval(cc, fl, cache, recentErr) ==
    IF ~cc.allowDynamicHousekeeping THEN cc.housekeepingInterval
    ELSE IF recentErr THEN cc.housekeepingInterval
    ELSE LET stats == RecentStats(cache, 2)
         IN  IF Len(stats) < 2 THEN cc.housekeepingInterval
             ELSE IF StatsEq(stats[1], stats[2])
                  THEN DurationMin(cc.housekeepingInterval * 2, cc.maxHousekeepingInterval)
                  ELSE fl.HousekeepingInterval

\* The signal adjustHousekeepingInterval acts on: "same", "changed" or "none".
HousekeepingSignal(cc, cache, recentErr) ==
    IF ~cc.allowDynamicHousekeeping \/ recentErr \/ Len(RecentStats(cache, 2)) < 2
    THEN "none"
    ELSE IF StatsEq(RecentStats(cache, 2)[1], RecentStats(cache, 2)[2]) THEN "same"
         ELSE "changed"

\* Mutant: the load-reader interval doubles without a ceiling.
LoadreaderBackoff_Unclamped(cc, fl, newTaskStats) ==
    IF cc.allowDynamicHousekeeping /\ cc.taskStats = newTaskStats
    THEN cc.loadreaderInterval * 2
    ELSE fl.LoadreaderInterval

\* doLoadReaderIteration, lines 580-584: the load-reader interval after a probe.
LoadreaderBackoff(cc, fl, newTaskStats) ==
    IF cc.allowDynamicHousekeeping /\ cc.taskStats = newTaskStats
    THEN DurationMin(cc.loadreaderInterval * 2, fl.MaxLoadReaderInterval)
    ELSE fl.LoadreaderInterval

\* ------------------------------------------------------------ the smoother

\* math.Exp(-dt/10) in units of 1/Scale, dt in ticks of 60 s, rounded:
\* exp(-6) = 0.0025, exp(-12) = 0.000006.
LoadDecay(dt) ==
    CASE dt = 0 -> Scale
      [] dt = 1 -> 25
      [] OTHER  -> 0

\* Mutant: the weights of the sample and of the old average are exchanged.
UpdateLoadAvg_SwapsWeights(loadAvg, dt, newTaskStats) ==
    LET newLoad == newTaskStats.NrRunning + newTaskStats.NrUninterruptible
                     + newTaskStats.NrIoWait
    IN  IF loadAvg < 0 THEN newLoad * Scale
        ELSE newLoad * LoadDecay(dt) + (loadAvg * (Scale - LoadDecay(dt))) \div Scale

\* Mutant: the first sample is not recorded.
UpdateLoadAvg_DropsFirst(loadAvg, dt, newTaskStats) ==
    LET newLoad == newTaskStats.NrRunning + newTaskStats.NrUninterruptible
                     + newTaskStats.NrIoWait
    IN  IF loadAvg < 0 THEN loadAvg
        ELSE newLoad * (Scale - LoadDecay(dt)) + (loadAvg * LoadDecay(dt)) \div Scale

\* updateLoadAvg: the new c.loadAvg (in units of 1/Scale).
UpdateLoadAvg(loadAvg, dt, newTaskStats) ==
    LET newLoad == newTaskStats.NrRunning + newTaskStats.NrUninterruptible
                     + newTaskStats.NrIoWait
    IN  IF loadAvg < 0 THEN newLoad * Scale
        ELSE newLoad * (Scale - LoadDecay(dt)) + (loadAvg * LoadDecay(dt)) \div Scale

\* updateStats, lines 635-639: int32(load * 1000) truncates toward zero.
MilliLoad(loadAvg) == (loadAvg * 1000) \div Scale


\* ------------------------------------------------------------ construction

\* newContainerData, lines 333-345, with no goroutine started yet.
\* 5*time.Second of GetInfo, in steps of the GetInfo clock (InfoTick).
FiveSeconds == 1

\* The specs GetSpec may return; 0 is what a caller of GetInfo writes.
SpecVals == {1, 2}

\* What ListContainers may return, in the handler's order.
SubcontainerLists == {<<>>, <<1, 2>>, <<2, 1>>}

\* sort.Sort(subcontainers), for the lists above.
SortSubcontainers(l) ==
    IF Len(l) = 2 /\ l[2] < l[1] THEN <<l[2], l[1]>> ELSE l

NewContainerData(fl, maxHousekeepingInterval, allowDynamicHousekeeping, loadReader, collectors) ==
    [ housekeepingInterval      |-> fl.HousekeepingInterval,
      maxHousekeepingInterval   |-> maxHousekeepingInterval,
      allowDynamicHousekeeping  |-> allowDynamicHousekeeping,
      logUsage                  |-> FALSE,
      loadReader                |-> loadReader,
      collectors                |-> collectors,
      loadAvg                   |-> -Scale,
      sinceLoadAvgLastProbeTime |-> MaxDt,
      loadreaderInterval        |-> fl.LoadreaderInterval,
      taskStats                 |-> ZeroLoadStats,
      sinceLastErrorTime        |-> Minute + 1,
      info                      |-> [Spec |-> 1, Subcontainers |-> <<>>],
      sinceLastUpdatedTime      |-> FiveSeconds + 1,
      loadStop                  |-> 0,
      stop                      |-> 0 ]

\* A loop that was not started.  run counts the no-change signals since the
\* last change signal, probed the iterations that updated the smoother,
\* inflight the goroutines of doWithTimeout that have not finished; hist
\* lists the samples pushed (when env.trace asks for it).
\* When env.timed asks for it the sleeps are timed: sinceLast is the time
\* since lastHousekeeping (lastIteration), sleepLeft what is left of
\* time.Sleep; during a sleep sinceLast is the time since next. skipped
\* records that the last scheduling found next in the past.
IdleLoop ==
    [pc |-> "idle", iter |-> 0, elapsed |-> 0, run |-> 0, probed |-> 0,
     inflight |-> 0, hist |-> <<>>, sinceLast |-> 0, sleepLeft |-> 0,
     skipped |-> FALSE]

\* sinceLast is counted up to here.
MaxSince == 4

\* utils.Jitter(d, 1.0): a duration in [d, 2d), in whole ticks.
Jitter(d) == d..(2 * d - 1)

\* Mutant: a wake that is overdue is scheduled in the past, to catch up.
Schedule_CatchesUp(l, j) ==
    IF ~env.timed THEN [l EXCEPT !.pc = "sleep"]
    ELSE IF l.sinceLast < j
         THEN [l EXCEPT !.pc = "sleep", !.sleepLeft = j - l.sinceLast, !.sinceLast = 0,
                        !.skipped = FALSE]
         ELSE [l EXCEPT !.pc = "sleep", !.sleepLeft = 0, !.sinceLast = @ - j,
                        !.skipped = TRUE]

\* Lines 470-478 and 609-617: next := last + j; before next the loop sleeps
\* until next, otherwise next = now and it does not sleep; last = next.
Schedule(l, j) ==
    IF ~env.timed THEN [l EXCEPT !.pc = "sleep"]
    ELSE IF l.sinceLast < j
         THEN [l EXCEPT !.pc = "sleep", !.sleepLeft = j - l.sinceLast, !.sinceLast = 0,
                        !.skipped = FALSE]
         ELSE [l EXCEPT !.pc = "sleep", !.sleepLeft = 0, !.sinceLast = 0,
                        !.skipped = TRUE]

\* A tick passes for a loop that runs: time.Sleep and the time since
\* lastHousekeeping (lastIteration, set at lines 421 and 599) go on.
Elapse(l) ==
    IF ~env.timed \/ l.pc \in {"idle", "handlerStart", "loadReaderStart", "begin"}
    THEN l
    ELSE IF l.pc = "sleep" /\ l.sleepLeft > 0 THEN [l EXCEPT !.sleepLeft = @ - 1]
    ELSE [l EXCEPT !.sinceLast = Min(@ + 1, MaxSince)]

NoHkWork ==
    [ pc |-> "none", stats |-> NoStats, statsErr |-> FALSE, customStatsErr |-> FALSE,
      ret |-> "nil", got |-> "none", sawExists |-> "none",
      pushed |-> FALSE, logged |-> FALSE, liveErr |-> FALSE, died |-> FALSE,
      early |-> FALSE, behind |-> FALSE, torn |-> FALSE ]

NoLdWork ==
    [ pc |-> "none", newTaskStats |-> ZeroLoadStats, dt |-> 0, sinceProbe |-> 0,
      ret |-> "nil", logged |-> FALSE, liveErr |-> FALSE, died |-> FALSE,
      early |-> FALSE ]

\* The goroutines that call AddStats of the storage driver.
Writers == {1, 2}

\* A goroutine that is not inside AddStats.
\* inFlight is the batch WritePoint has been given and has not returned for,
\* ret what the last AddStats returned.
IdleWriter ==
    [pc |-> "idle", calls |-> 0, pointsToFlush |-> <<>>, inFlight |-> <<>>, ret |-> "nil"]

\* newStorage, lines 285-294: an empty buffer, lastWrite = time.Now(), the
\* lock free.  appended collects every point ever appended, batches the
\* batches handed to WritePoint, failed those whose write failed.
NewStorage ==
    [points |-> <<>>, sinceLastWrite |-> 0, lock |-> 0,
     writers |-> [t \in Writers |-> IdleWriter],
     appended |-> {}, batches |-> <<>>, failed |-> {}]

\* No function is being called.
NoCall == [fn |-> "none"]

\* A goroutine that is not inside GetInfo.  snapshot is c.info as it was when
\* GetInfo returned its address, wrote tells that the caller assigned to the
\* ContainerInfo it was given, early that its GetSpec call came no more than
\* 5 s after the previous one.
IdleCaller ==
    [pc |-> "idle", calls |-> 0, snapshot |-> <<>>, wrote |-> FALSE, early |-> FALSE]

\* The goroutines that call GetInfo.
Callers == {1, 2}

InitTracker ==
    /\ handler = [exists |-> TRUE, started |-> FALSE, cleanups |-> 0, lateCalls |-> 0,
                  statsCalls |-> 0, sinceGetSpec |-> FiveSeconds + 1]
    /\ reader = [started |-> FALSE, startCalls |-> 0, stops |-> 0,
                 lateReads |-> 0, earlyReads |-> 0]
    /\ memoryCache = <<>>
    /\ hk = IdleLoop
    /\ hkw = NoHkWork
    /\ ld = IdleLoop
    /\ ldw = NoLdWork
    /\ stopper = [pc |-> "idle", calls |-> 0, removed |-> FALSE,
                  sentStop |-> FALSE, sentLoadStop |-> FALSE]
    /\ aborted = FALSE
    /\ callers = [t \in Callers |-> IdleCaller]
    /\ storage = NewStorage
    /\ call = NoCall

\* The default flags (lines 47-51) in seconds, the ceiling lowered to 2 s.
DefaultFlags ==
    [HousekeepingInterval |-> 1, LoadreaderInterval |-> 1, MaxLoadReaderInterval |-> 2]

\* The life cycle: every call succeeds, the container lives, no collector is
\* registered, Stop is called.
Init ==
    /\ env = [errs |-> {FALSE}, stats |-> {HandlerStats(1)},
              loads |-> {LoadStats(1, 0, 0)},
              hkIter |-> MaxHkIter, ldIter |-> MaxLdIter, stopCalls |-> MaxStopCalls,
              trace |-> FALSE, timed |-> FALSE]
    /\ flags = DefaultFlags
    /\ \E loadReader \in BOOLEAN :
          c = NewContainerData(flags, 2, TRUE, loadReader, FALSE)
    /\ InitTracker

\* ------------------------------------------------------------ environment

\* A call into c.handler; lateCalls counts the calls made after Cleanup.
HandlerCall(h) ==
    [h EXCEPT !.lateCalls = IF h.cleanups > 0 THEN Min(@ + 1, 1) ELSE @]

\* A call of c.loadReader.GetCpuLoad.
ReaderCall(r) ==
    [r EXCEPT !.lateReads = IF r.stops > 0 THEN Min(@ + 1, 1) ELSE @,
              !.earlyReads = IF r.startCalls = 0 THEN Min(@ + 1, 1) ELSE @]

\* The container is destroyed: handler.Exists() is false from now on.  died
\* records that this happened during the iteration in flight.
ContainerDies ==
    /\ ~aborted
    /\ handler.exists
    /\ handler' = [handler EXCEPT !.exists = FALSE]
    /\ hkw' = [hkw EXCEPT !.died = (hkw.pc # "none")]
    /\ ldw' = [ldw EXCEPT !.died = (ldw.pc # "none")]
    /\ UNCHANGED <<outside, env, flags, c, reader, memoryCache, hk, ld, stopper, aborted>>

\* ------------------------------------------------------------------ Start

\* Start: go c.doHousekeepingLoop(); go c.doLoadReaderLoop().
Start ==
    /\ ~aborted
    /\ hk.pc = "idle" /\ ld.pc = "idle"
    /\ hk' = [hk EXCEPT !.pc = "handlerStart"]
    /\ ld' = [ld EXCEPT !.pc = "begin"]
    /\ UNCHANGED <<outside, env, flags, c, handler, reader, memoryCache, hkw, ldw, stopper, aborted>>

\* ------------------------------------------------------------------- Stop

\* Mutant: Stop returns after the removal when it succeeded.
StopRemoveContainer_ReturnsEarly ==
    /\ ~aborted
    /\ stopper.pc \in {"idle", "returned"}
    /\ stopper.calls < env.stopCalls
    /\ LET r == RemoveContainer(memoryCache)
       IN  /\ memoryCache' = r.cache
           /\ stopper' = [pc |-> IF r.err THEN "sendStop" ELSE "returned",
                          calls |-> stopper.calls + 1, removed |-> TRUE,
                          sentStop |-> FALSE, sentLoadStop |-> FALSE]
    /\ UNCHANGED <<outside, env, flags, c, handler, reader, hk, hkw, ld, ldw, aborted>>

\* Stop, line 113: RemoveContainer; on an error Stop returns it.
StopRemoveContainer ==
    /\ ~aborted
    /\ stopper.pc \in {"idle", "returned"}
    /\ stopper.calls < env.stopCalls
    /\ LET r == RemoveContainer(memoryCache)
       IN  /\ memoryCache' = r.cache
           /\ stopper' = [pc |-> IF r.err THEN "returned" ELSE "sendStop",
                          calls |-> stopper.calls + 1, removed |-> TRUE,
                          sentStop |-> FALSE, sentLoadStop |-> FALSE]
    /\ UNCHANGED <<outside, env, flags, c, handler, reader, hk, hkw, ld, ldw, aborted>>

\* Mutant: the first send fills both channels.
StopSendStop_FillsBoth ==
    /\ ~aborted
    /\ stopper.pc = "sendStop"
    /\ c.stop = 0
    /\ c' = [c EXCEPT !.stop = 1, !.loadStop = 1]
    /\ stopper' = [stopper EXCEPT !.pc = "sendLoadStop", !.sentStop = TRUE]
    /\ UNCHANGED <<outside, env, flags, handler, reader, memoryCache, hk, hkw, ld, ldw, aborted>>

\* Stop, line 117: c.stop <- true blocks while the channel (capacity 1) is full.
StopSendStop ==
    /\ ~aborted
    /\ stopper.pc = "sendStop"
    /\ c.stop = 0
    /\ c' = [c EXCEPT !.stop = 1]
    /\ stopper' = [stopper EXCEPT !.pc = "sendLoadStop", !.sentStop = TRUE]
    /\ UNCHANGED <<outside, env, flags, handler, reader, memoryCache, hk, hkw, ld, ldw, aborted>>

\* Stop, line 118: c.loadStop <- true, then return nil.
StopSendLoadStop ==
    /\ ~aborted
    /\ stopper.pc = "sendLoadStop"
    /\ c.loadStop = 0
    /\ c' = [c EXCEPT !.loadStop = 1]
    /\ stopper' = [stopper EXCEPT !.pc = "returned", !.sentLoadStop = TRUE]
    /\ UNCHANGED <<outside, env, flags, handler, reader, memoryCache, hk, hkw, ld, ldw, aborted>>

\* -------------------------------------------------- the housekeeping loop

\* doHousekeepingLoop, lines 402-403: c.handler.Start(); defer c.handler.Cleanup().
HkHandlerStart ==
    /\ ~aborted
    /\ hk.pc = "handlerStart"
    /\ handler' = [HandlerCall(handler) EXCEPT !.started = TRUE]
    /\ hk' = [hk EXCEPT !.pc = IF c.loadReader THEN "loadReaderStart" ELSE "select"]
    /\ UNCHANGED <<outside, env, flags, c, reader, memoryCache, hkw, ld, ldw, stopper, aborted>>

\* Lines 406-412: c.loadReader.Start(), a failure is only logged;
\* defer c.loadReader.Stop().
HkLoadReaderStart ==
    /\ ~aborted
    /\ hk.pc = "loadReaderStart"
    /\ \E err \in env.errs :
          reader' = [reader EXCEPT !.started = ~err, !.startCalls = 1]
    /\ hk' = [hk EXCEPT !.pc = "select"]
    /\ UNCHANGED <<outside, env, flags, c, handler, memoryCache, hkw, ld, ldw, stopper, aborted>>

\* Lines 423-426: the stop signal is there; the loop returns.
HkStopSignal ==
    /\ ~aborted
    /\ hk.pc = "select"
    /\ c.stop > 0
    /\ c' = [c EXCEPT !.stop = 0]
    /\ hk' = [hk EXCEPT !.pc = "deferredStop"]
    /\ UNCHANGED <<outside, env, flags, handler, reader, memoryCache, hkw, ld, ldw, stopper, aborted>>

\* Mutant: the iteration starts without looking at c.stop.
HkLaunch_IgnoresStop ==
    /\ ~aborted
    /\ hk.pc = "select"
    /\ hk.iter < env.hkIter
    /\ hk' = [hk EXCEPT !.pc = "wait", !.iter = @ + 1, !.elapsed = 0,
                        !.inflight = @ + 1]
    /\ hkw' = [NoHkWork EXCEPT !.pc = "GetStats"]
    /\ UNCHANGED <<outside, env, flags, c, handler, reader, memoryCache, ld, ldw, stopper, aborted>>

\* Lines 427-430 and 484-497: no stop signal; doWithTimeout starts the
\* goroutine of updateStats and waits for done or for the timer.
HkLaunch ==
    /\ ~aborted
    /\ hk.pc = "select"
    /\ c.stop = 0
    /\ hk.iter < env.hkIter
    /\ hk' = [hk EXCEPT !.pc = "wait", !.iter = @ + 1, !.elapsed = 0,
                        !.inflight = @ + 1]
    /\ hkw' = [NoHkWork EXCEPT !.pc = "GetStats"]
    /\ UNCHANGED <<outside, env, flags, c, handler, reader, memoryCache, ld, ldw, stopper, aborted>>

\* Lines 439-478: usage logging (only when c.logUsage), then
\* adjustHousekeepingInterval; its error is logged when allowErrorLogging;
\* then the next housekeeping is scheduled.
HkAfter ==
    /\ ~aborted
    /\ hk.pc = "after"
    /\ \E recentErr \in env.errs :
          LET usageLog == c.logUsage /\ recentErr
                            /\ AllowErrorLoggingTest(c.sinceLastErrorTime)
              since1 == IF usageLog THEN 0 ELSE c.sinceLastErrorTime
              adjustLog == c.allowDynamicHousekeeping /\ recentErr
                             /\ AllowErrorLoggingTest(since1)
              sig == HousekeepingSignal(c, memoryCache, recentErr)
          IN  /\ c' = [c EXCEPT
                         !.housekeepingInterval =
                             AdjustHousekeepingInterval(c, flags, memoryCache, recentErr),
                         !.sinceLastErrorTime = IF adjustLog THEN 0 ELSE since1]
              /\ \E j \in Jitter(c'.housekeepingInterval) :
                    hk' = [Schedule(hk, j) EXCEPT
                              !.run = IF sig = "same" THEN @ + 1
                                      ELSE IF sig = "changed" THEN 0 ELSE @]
    /\ UNCHANGED <<outside, env, flags, handler, reader, memoryCache, hkw, ld, ldw, stopper, aborted>>

\* Lines 472-479: the sleep until next is over (or was skipped).
HkWake ==
    /\ ~aborted
    /\ hk.pc = "sleep"
    /\ hk.sleepLeft = 0
    /\ hk' = [hk EXCEPT !.pc = "select"]
    /\ UNCHANGED <<outside, env, flags, c, handler, reader, memoryCache, hkw, ld, ldw, stopper, aborted>>

\* Line 411, deferred: c.loadReader.Stop() runs first on return.
HkDeferredStop ==
    /\ ~aborted
    /\ hk.pc = "deferredStop"
    /\ reader' = IF c.loadReader THEN [reader EXCEPT !.stops = @ + 1] ELSE reader
    /\ hk' = [hk EXCEPT !.pc = "deferredCleanup"]
    /\ UNCHANGED <<outside, env, flags, c, handler, memoryCache, hkw, ld, ldw, stopper, aborted>>

\* Line 403, deferred: c.handler.Cleanup() runs last.
HkDeferredCleanup ==
    /\ ~aborted
    /\ hk.pc = "deferredCleanup"
    /\ handler' = [handler EXCEPT !.cleanups = @ + 1]
    /\ hk' = [hk EXCEPT !.pc = "terminated"]
    /\ UNCHANGED <<outside, env, flags, c, reader, memoryCache, hkw, ld, ldw, stopper, aborted>>


\* ------------------------------------------- doWithTimeout(updateStats)

\* updateStats returns r inside the goroutine of doWithTimeout (line 488).
HkReturn(w, r) ==
    [w EXCEPT !.ret = r, !.pc = IF r = "nil" THEN "done" ELSE "allowErrorLogging"]

\* updateStats, lines 622-634: c.handler.GetStats().
UpdateStatsGetStats ==
    /\ ~aborted
    /\ hkw.pc = "GetStats"
    /\ \E sample \in env.stats, statsErr \in env.errs :
          LET stats == IF sample.nil THEN sample
                       ELSE [sample EXCEPT !.Timestamp = handler.statsCalls + 1]
              w == [hkw EXCEPT !.stats = stats, !.statsErr = statsErr,
                               !.got = IF stats.nil THEN "nil" ELSE "stats",
                               !.liveErr = statsErr /\ handler.exists]
          IN  hkw' = IF statsErr THEN [w EXCEPT !.pc = "ExistsAfterGetStats"]
                     ELSE IF stats.nil THEN HkReturn(w, "nil")
                     ELSE [w EXCEPT !.pc = "LoadAvg"]
    /\ handler' = [HandlerCall(handler) EXCEPT !.statsCalls = @ + 1]
    /\ UNCHANGED <<outside, env, flags, c, reader, memoryCache, hk, ld, ldw, stopper, aborted>>

\* Mutant: the error is not checked against c.handler.Exists().
UpdateStatsExists_IgnoresExists ==
    /\ ~aborted
    /\ hkw.pc = "ExistsAfterGetStats"
    /\ LET w == [hkw EXCEPT !.sawExists = IF handler.exists THEN "yes" ELSE "no"]
       IN  hkw' = IF w.stats.nil THEN HkReturn(w, "statsErr")
                  ELSE [w EXCEPT !.pc = "LoadAvg"]
    /\ handler' = HandlerCall(handler)
    /\ UNCHANGED <<outside, env, flags, c, reader, memoryCache, hk, ld, ldw, stopper, aborted>>

\* Mutant: the error of a live container is returned at once, whatever the
\* sample.
UpdateStatsExists_ReturnsEarly ==
    /\ ~aborted
    /\ hkw.pc = "ExistsAfterGetStats"
    /\ LET w == [hkw EXCEPT !.sawExists = IF handler.exists THEN "yes" ELSE "no"]
       IN  hkw' = IF ~handler.exists THEN HkReturn(w, "nil")
                  ELSE HkReturn(w, "statsErr")
    /\ handler' = HandlerCall(handler)
    /\ UNCHANGED <<outside, env, flags, c, reader, memoryCache, hk, ld, ldw, stopper, aborted>>

\* Lines 623-634: statsErr != nil; a dead container's error is ignored,
\* otherwise the error is kept and a nil sample returns it.
UpdateStatsExists ==
    /\ ~aborted
    /\ hkw.pc = "ExistsAfterGetStats"
    /\ LET w == [hkw EXCEPT !.sawExists = IF handler.exists THEN "yes" ELSE "no"]
       IN  hkw' = IF ~handler.exists THEN HkReturn(w, "nil")
                  ELSE IF w.stats.nil THEN HkReturn(w, "statsErr")
                  ELSE [w EXCEPT !.pc = "LoadAvg"]
    /\ handler' = HandlerCall(handler)
    /\ UNCHANGED <<outside, env, flags, c, reader, memoryCache, hk, ld, ldw, stopper, aborted>>

\* Lines 635-639: load := c.LoadAvg(); a load >= 0 is stored as milli-load.
UpdateStatsLoadAvg ==
    /\ ~aborted
    /\ hkw.pc = "LoadAvg"
    /\ hkw' = [hkw EXCEPT !.pc = "TaskStats",
                          !.stats.LoadAverage =
                              IF c.loadAvg >= 0 THEN MilliLoad(c.loadAvg) ELSE @,
                          !.behind = ldw.pc = "updateLoadAvg"]
    /\ UNCHANGED <<outside, env, flags, c, handler, reader, memoryCache, hk, ld, ldw, stopper, aborted>>

\* Lines 640-654: taskStats := c.TaskStats() is attached; the summary reader
\* keeps no tracker state; custom metrics are collected when collectors exist
\* and NextCollectionTime has passed (due).
UpdateStatsTaskStats ==
    /\ ~aborted
    /\ hkw.pc = "TaskStats"
    /\ \E due \in BOOLEAN :
          hkw' = [hkw EXCEPT !.stats.TaskStats = c.taskStats,
                             !.torn = hkw.behind, !.behind = FALSE,
                             !.pc = IF c.collectors /\ due THEN "Collect"
                                    ELSE "ContainerReference"]
    /\ UNCHANGED <<outside, env, flags, c, handler, reader, memoryCache, hk, ld, ldw, stopper, aborted>>

\* updateCustomStats, line 684, and updateStats, lines 656-658:
\* c.collectorManager.Collect(); non-nil custom stats are attached.
UpdateCustomStatsCollect ==
    /\ ~aborted
    /\ hkw.pc = "Collect"
    /\ \E customStats \in BOOLEAN, customStatsErr \in env.errs :
          hkw' = [hkw EXCEPT !.stats.CustomMetrics = @ \/ customStats,
                             !.liveErr = @ \/ (customStatsErr /\ handler.exists),
                             !.pc = IF customStatsErr THEN "ExistsAfterCollect"
                                    ELSE "ContainerReference"]
    /\ UNCHANGED <<outside, env, flags, c, handler, reader, memoryCache, hk, ld, ldw, stopper, aborted>>

\* updateCustomStats, lines 685-691: the collector error of a dead container
\* is dropped, otherwise it is kept for after the push.
UpdateCustomStatsExists ==
    /\ ~aborted
    /\ hkw.pc = "ExistsAfterCollect"
    /\ hkw' = [hkw EXCEPT !.customStatsErr = handler.exists,
                          !.pc = "ContainerReference"]
    /\ handler' = HandlerCall(handler)
    /\ UNCHANGED <<outside, env, flags, c, reader, memoryCache, hk, ld, ldw, stopper, aborted>>

\* Lines 665-666: c.handler.ContainerReference().
UpdateStatsContainerReference ==
    /\ ~aborted
    /\ hkw.pc = "ContainerReference"
    /\ \E err \in env.errs :
          hkw' = [hkw EXCEPT !.liveErr = @ \/ (err /\ handler.exists),
                             !.pc = IF err THEN "ExistsAfterReference" ELSE "AddStats"]
    /\ handler' = HandlerCall(handler)
    /\ UNCHANGED <<outside, env, flags, c, reader, memoryCache, hk, ld, ldw, stopper, aborted>>

\* Lines 667-672: the reference error of a dead container is ignored.
UpdateStatsReferenceExists ==
    /\ ~aborted
    /\ hkw.pc = "ExistsAfterReference"
    /\ hkw' = HkReturn(hkw, IF ~handler.exists THEN "nil" ELSE "referenceErr")
    /\ handler' = HandlerCall(handler)
    /\ UNCHANGED <<outside, env, flags, c, reader, memoryCache, hk, ld, ldw, stopper, aborted>>

\* updateStats, lines 677-680: what is returned once the push succeeded.
UpdateStatsResult(w) ==
    IF w.statsErr THEN "statsErr"
    ELSE IF w.customStatsErr THEN "customStatsErr" ELSE "nil"

\* Lines 673-680: c.memoryCache.AddStats(ref, stats); its error is returned,
\* otherwise the stats error, otherwise the custom stats error.
UpdateStatsAddStats ==
    /\ ~aborted
    /\ hkw.pc = "AddStats"
    /\ \E err \in env.errs :
          IF err
          THEN /\ hkw' = HkReturn([hkw EXCEPT !.liveErr = TRUE], "addStatsErr")
               /\ UNCHANGED memoryCache
               /\ UNCHANGED hk
          ELSE /\ hkw' = HkReturn([hkw EXCEPT !.pushed = TRUE], UpdateStatsResult(hkw))
               /\ memoryCache' = CacheAdd(memoryCache, hkw.stats)
               /\ hk' = [hk EXCEPT !.hist = IF env.trace THEN Append(@, hkw.stats.val)
                                             ELSE @]
    /\ UNCHANGED <<outside, env, flags, c, handler, reader, ld, ldw, stopper, aborted>>

\* doWithTimeout, lines 489-490, and allowErrorLogging, line 123: the test.
HkAllowErrorLogging ==
    /\ ~aborted
    /\ hkw.pc = "allowErrorLogging"
    /\ hkw' = [hkw EXCEPT !.pc = IF AllowErrorLoggingTest(c.sinceLastErrorTime)
                                 THEN "log" ELSE "done"]
    /\ UNCHANGED <<outside, env, flags, c, handler, reader, memoryCache, hk, ld, ldw, stopper, aborted>>

\* allowErrorLogging, line 124, and doWithTimeout, line 491: the timestamp
\* is set and the error is logged.  early records a log emitted although
\* lastErrorTime is no more than a minute old by now.
HkLogError ==
    /\ ~aborted
    /\ hkw.pc = "log"
    /\ c' = [c EXCEPT !.sinceLastErrorTime = 0]
    /\ hkw' = [hkw EXCEPT !.pc = "done", !.logged = TRUE,
                          !.early = ~AllowErrorLoggingTest(c.sinceLastErrorTime)]
    /\ UNCHANGED <<outside, env, flags, handler, reader, memoryCache, hk, ld, ldw, stopper, aborted>>

\* doWithTimeout, lines 494 and 498: done <- true ends the wait of the loop.
HkDone ==
    /\ ~aborted
    /\ hkw.pc = "done"
    /\ hkw' = NoHkWork
    /\ hk' = [hk EXCEPT !.pc = IF @ = "wait" THEN "after" ELSE @,
                        !.inflight = @ - 1]
    /\ UNCHANGED <<outside, env, flags, c, handler, reader, memoryCache, ld, ldw, stopper, aborted>>

\* doWithTimeout, lines 500-503: the timer fired first; the error and the
\* goroutine dump are written.
HkTimedOutDump ==
    /\ ~aborted
    /\ hk.pc = "timedout"
    /\ hk' = [hk EXCEPT !.pc = "dumped"]
    /\ UNCHANGED <<outside, env, flags, c, handler, reader, memoryCache, hkw, ld, ldw, stopper, aborted>>

\* Mutant: the panic is recovered and the loop carries on.
HkPanic_Recovers ==
    /\ ~aborted
    /\ hk.pc = "dumped"
    /\ hk' = [hk EXCEPT !.pc = "after"]
    /\ UNCHANGED <<outside, env, flags, c, handler, reader, memoryCache, hkw, ld, ldw, stopper, aborted>>

\* doWithTimeout, line 504: panic("Aborting!") ends the process.
HkPanic ==
    /\ ~aborted
    /\ hk.pc = "dumped"
    /\ aborted' = TRUE
    /\ UNCHANGED <<outside, env, flags, c, handler, reader, memoryCache, hk, hkw, ld, ldw, stopper>>


\* --------------------------------------------------- the load-reader loop

\* doLoadReaderLoop, lines 594-599: without a load reader the loop returns.
LdBegin ==
    /\ ~aborted
    /\ ld.pc = "begin"
    /\ ld' = [ld EXCEPT !.pc = IF c.loadReader THEN "select" ELSE "terminated"]
    /\ UNCHANGED <<outside, env, flags, c, handler, reader, memoryCache, hk, hkw, ldw, stopper, aborted>>

\* Mutant: the load-reader loop stops the reader itself when it returns.
LdStopSignal_StopsReader ==
    /\ ~aborted
    /\ ld.pc = "select"
    /\ c.loadStop > 0
    /\ c' = [c EXCEPT !.loadStop = 0]
    /\ ld' = [ld EXCEPT !.pc = "terminated"]
    /\ reader' = [reader EXCEPT !.stops = @ + 1]
    /\ UNCHANGED <<outside, env, flags, handler, memoryCache, hk, hkw, ldw, stopper, aborted>>

\* Lines 601-603: the stop signal is there; the loop returns.
LdStopSignal ==
    /\ ~aborted
    /\ ld.pc = "select"
    /\ c.loadStop > 0
    /\ c' = [c EXCEPT !.loadStop = 0]
    /\ ld' = [ld EXCEPT !.pc = "terminated"]
    /\ UNCHANGED <<outside, env, flags, handler, reader, memoryCache, hk, hkw, ldw, stopper, aborted>>

\* Lines 604-605 and 484-497: no stop signal; doWithTimeout starts the
\* goroutine of doLoadReaderIteration and waits for done or for the timer.
LdLaunch ==
    /\ ~aborted
    /\ ld.pc = "select"
    /\ c.loadStop = 0
    /\ ld.iter < env.ldIter
    /\ ld' = [ld EXCEPT !.pc = "wait", !.iter = @ + 1, !.elapsed = 0,
                        !.inflight = @ + 1]
    /\ ldw' = [NoLdWork EXCEPT !.pc = "GetCgroupPath"]
    /\ UNCHANGED <<outside, env, flags, c, handler, reader, memoryCache, hk, hkw, stopper, aborted>>

\* Lines 608-618: the sleep until next is over (or was skipped).
LdWake ==
    /\ ~aborted
    /\ ld.pc = "sleep"
    /\ ld.sleepLeft = 0
    /\ ld' = [ld EXCEPT !.pc = "select"]
    /\ UNCHANGED <<outside, env, flags, c, handler, reader, memoryCache, hk, hkw, ldw, stopper, aborted>>

\* ---------------------------------- doWithTimeout(doLoadReaderIteration)

\* doLoadReaderIteration returns r inside the goroutine of doWithTimeout.
LdReturn(w, r) ==
    [w EXCEPT !.ret = r, !.pc = IF r = "nil" THEN "done" ELSE "allowErrorLogging"]

\* doLoadReaderIteration, lines 572-573 and 590: c.handler.GetCgroupPath("cpu");
\* on an error the iteration returns nil.
LoadReaderGetCgroupPath ==
    /\ ~aborted
    /\ ldw.pc = "GetCgroupPath"
    /\ \E err \in env.errs :
          ldw' = IF err THEN LdReturn(ldw, "nil") ELSE [ldw EXCEPT !.pc = "GetCpuLoad"]
    /\ handler' = HandlerCall(handler)
    /\ UNCHANGED <<outside, env, flags, c, reader, memoryCache, hk, hkw, ld, stopper, aborted>>

\* Lines 574-578: c.loadReader.GetCpuLoad and probeTime := time.Now(); the
\* error of the read is returned.
LoadReaderGetCpuLoad ==
    /\ ~aborted
    /\ ldw.pc = "GetCpuLoad"
    /\ \E newTaskStats \in env.loads, err \in env.errs :
          ldw' = IF err
                 THEN LdReturn([ldw EXCEPT !.liveErr = handler.exists], "loadErr")
                 ELSE [ldw EXCEPT !.newTaskStats = newTaskStats,
                                  !.dt = c.sinceLoadAvgLastProbeTime,
                                  !.sinceProbe = 0,
                                  !.pc = "updateTaskStats"]
    /\ reader' = ReaderCall(reader)
    /\ UNCHANGED <<outside, env, flags, c, handler, memoryCache, hk, hkw, ld, stopper, aborted>>

\* Lines 579-586: the back-off on c.TaskStats() == newTaskStats, then
\* c.updateTaskStats(newTaskStats).  Only this goroutine writes c.taskStats
\* and c.loadreaderInterval, so the two are one step.  loadLock is released
\* when updateTaskStats returns (line 559) and taken again by updateLoadAvg.
\* An updateStats that has read c.LoadAvg() and not yet c.TaskStats() is
\* marked: the load it holds is behind the task stats it is going to read.
LoadReaderUpdateTaskStats ==
    /\ ~aborted
    /\ ldw.pc = "updateTaskStats"
    /\ c' = [c EXCEPT !.loadreaderInterval = LoadreaderBackoff(c, flags, ldw.newTaskStats),
                      !.taskStats = ldw.newTaskStats]
    /\ ld' = [ld EXCEPT !.run = IF c.allowDynamicHousekeeping
                                      /\ c.taskStats = ldw.newTaskStats
                                THEN @ + 1 ELSE 0]
    /\ ldw' = [ldw EXCEPT !.pc = "updateLoadAvg"]
    /\ hkw' = IF hkw.pc = "TaskStats" THEN [hkw EXCEPT !.behind = TRUE] ELSE hkw
    /\ UNCHANGED <<outside, env, flags, handler, reader, memoryCache, hk, stopper, aborted>>

\* Lines 587-590: c.updateLoadAvg(probeTime, newTaskStats); return nil.
LoadReaderUpdateLoadAvg ==
    /\ ~aborted
    /\ ldw.pc = "updateLoadAvg"
    /\ c' = [c EXCEPT !.loadAvg = UpdateLoadAvg(c.loadAvg, ldw.dt, ldw.newTaskStats),
                      !.sinceLoadAvgLastProbeTime = ldw.sinceProbe]
    /\ ldw' = LdReturn(ldw, "nil")
    /\ ld' = [ld EXCEPT !.probed = Min(@ + 1, 1)]
    /\ UNCHANGED <<outside, env, flags, handler, reader, memoryCache, hk, hkw, stopper, aborted>>

\* doWithTimeout, lines 489-490, and allowErrorLogging, line 123: the test.
LdAllowErrorLogging ==
    /\ ~aborted
    /\ ldw.pc = "allowErrorLogging"
    /\ ldw' = [ldw EXCEPT !.pc = IF AllowErrorLoggingTest(c.sinceLastErrorTime)
                                 THEN "log" ELSE "done"]
    /\ UNCHANGED <<outside, env, flags, c, handler, reader, memoryCache, hk, hkw, ld, stopper, aborted>>

\* allowErrorLogging, line 124, and doWithTimeout, line 491.
LdLogError ==
    /\ ~aborted
    /\ ldw.pc = "log"
    /\ c' = [c EXCEPT !.sinceLastErrorTime = 0]
    /\ ldw' = [ldw EXCEPT !.pc = "done", !.logged = TRUE,
                          !.early = ~AllowErrorLoggingTest(c.sinceLastErrorTime)]
    /\ UNCHANGED <<outside, env, flags, handler, reader, memoryCache, hk, hkw, ld, stopper, aborted>>

\* doWithTimeout, lines 494 and 498: done <- true ends the wait of the loop,
\* which goes on to schedule its next iteration (lines 608-618).
LdDone ==
    /\ ~aborted
    /\ ldw.pc = "done"
    /\ ldw' = NoLdWork
    /\ \E j \in Jitter(c.loadreaderInterval) :
          ld' = [(IF ld.pc = "wait" THEN Schedule(ld, j) ELSE ld) EXCEPT
                    !.inflight = @ - 1]
    /\ UNCHANGED <<outside, env, flags, c, handler, reader, memoryCache, hk, hkw, stopper, aborted>>

\* doWithTimeout, lines 500-503, for the load-reader loop.
LdTimedOutDump ==
    /\ ~aborted
    /\ ld.pc = "timedout"
    /\ ld' = [ld EXCEPT !.pc = "dumped"]
    /\ UNCHANGED <<outside, env, flags, c, handler, reader, memoryCache, hk, hkw, ldw, stopper, aborted>>

\* doWithTimeout, line 504, for the load-reader loop.
LdPanic ==
    /\ ~aborted
    /\ ld.pc = "dumped"
    /\ aborted' = TRUE
    /\ UNCHANGED <<outside, env, flags, c, handler, reader, memoryCache, hk, hkw, ld, ldw, stopper>>

\* ------------------------------------------------------------------- time

\* Mutant: a pending stop signal keeps the timer from ending the wait.
Waited_UnlessStopPending(l) ==
    IF l.pc # "wait" THEN l
    ELSE IF l.elapsed + 1 >= PanicTimeout /\ c.stop = 0 /\ c.loadStop = 0
         THEN [l EXCEPT !.pc = "timedout"]
    ELSE [l EXCEPT !.elapsed = @ + 1]

\* doWithTimeout, lines 497-500: a loop waiting in the select whose timer
\* reaches timeout before done arrives takes the time.After case.
Waited(l) ==
    IF l.pc # "wait" THEN l
    ELSE IF l.elapsed + 1 >= PanicTimeout THEN [l EXCEPT !.pc = "timedout"]
    ELSE [l EXCEPT !.elapsed = @ + 1]

\* One tick of the clock passes.
Tick ==
    /\ ~aborted
    /\ c' = [c EXCEPT !.sinceLastErrorTime = Min(@ + 1, Minute + 1),
                      !.sinceLoadAvgLastProbeTime = Min(@ + 1, MaxDt)]
    /\ hk' = Elapse(Waited(hk))
    /\ ld' = Elapse(Waited(ld))
    /\ ldw' = IF ldw.pc \in {"updateTaskStats", "updateLoadAvg"}
              THEN [ldw EXCEPT !.sinceProbe = Min(@ + 1, MaxDt)] ELSE ldw
    /\ UNCHANGED <<outside, env, flags, handler, reader, memoryCache, hkw, stopper, aborted>>

\* ---------------------------------------------------------- specification

\* doHousekeepingLoop while no stop signal arrives.
HkLoop == HkHandlerStart \/ HkLoadReaderStart \/ HkLaunch \/ HkAfter \/ HkWake

\* doHousekeepingLoop on its stop signal.
HkLoopStop == HkStopSignal \/ HkDeferredStop \/ HkDeferredCleanup

\* The steps of updateStats no error leads to.
HkWork ==
    \/ UpdateStatsGetStats \/ UpdateStatsLoadAvg \/ UpdateStatsTaskStats
    \/ UpdateStatsContainerReference \/ UpdateStatsAddStats \/ HkDone

\* The steps of updateStats and doWithTimeout that need collectors or follow
\* an error.
HkWorkErr ==
    \/ UpdateCustomStatsCollect \/ UpdateStatsExists \/ UpdateCustomStatsExists
    \/ UpdateStatsReferenceExists \/ HkAllowErrorLogging \/ HkLogError

LdLoop == LdBegin \/ LdLaunch \/ LdWake

LdWork ==
    \/ LoadReaderGetCgroupPath \/ LoadReaderGetCpuLoad \/ LoadReaderUpdateTaskStats
    \/ LoadReaderUpdateLoadAvg \/ LdDone

LdWorkErr == LdAllowErrorLogging \/ LdLogError

HkTimeout == HkTimedOutDump \/ HkPanic

LdTimeout == LdTimedOutDump \/ LdPanic

StopCall == StopRemoveContainer \/ StopSendStop \/ StopSendLoadStop

Next ==
    \/ Start \/ StopCall \/ Tick \/ HkTimeout \/ LdTimeout
    \/ HkLoop \/ HkLoopStop \/ HkWork \/ LdLoop \/ LdStopSignal \/ LdWork

\* The life cycle of one tracker: Start, both loops, the timeout guard, Stop.
Spec == Init /\ [][Next]_vars

\* The Go scheduler runs every goroutine that can take a step, and a call
\* into the handler, the reader or the cache returns.  Stop is not called
\* unless its caller wants to, time need not pass.
Fairness ==
    /\ WF_vars(HkLoop \/ HkLoopStop \/ HkTimeout)
    /\ WF_vars(HkWork)
    /\ WF_vars(LdLoop \/ LdStopSignal \/ LdTimeout)
    /\ WF_vars(LdWork)
    /\ WF_vars(StopSendStop \/ StopSendLoadStop)

SpecFair == Spec /\ Fairness

\* ------------------------------------------------------- failing handlers

\* Calls into the handler, the collectors, the reader and the cache may fail,
\* the container may die, collectors are registered; Stop is not called and
\* everything happens within one tick.
InitErr ==
    /\ env = [errs |-> BOOLEAN, stats |-> {NoStats, HandlerStats(1)},
              loads |-> {ZeroLoadStats, LoadStats(1, 0, 0)},
              hkIter |-> MaxHkIter, ldIter |-> MaxLdIter, stopCalls |-> 0,
              trace |-> FALSE, timed |-> FALSE]
    /\ flags = DefaultFlags
    /\ \E loadReader \in BOOLEAN :
          c = NewContainerData(flags, 2, TRUE, loadReader, TRUE)
    /\ InitTracker

NextErr ==
    \/ Start \/ ContainerDies
    \/ HkLoop \/ HkWork \/ HkWorkErr \/ LdLoop \/ LdWork \/ LdWorkErr

SpecErr == InitErr /\ [][NextErr]_vars

\* --------------------------------------------------- adaptive scheduling

\* Iterations of the loop SpecSched exercises.
MaxSchedIter == 4

\* Baselines and ceilings in seconds; a ceiling below the baseline is a legal
\* configuration.
Baselines == {1, 2}
Ceilings == {1, 2, 4}

\* Every call succeeds and samples vary; one of the two loops is exercised
\* for MaxSchedIter iterations while the other one runs a single iteration.
InitSched ==
    /\ \E long \in {"hk", "ld"} :
          env = [errs |-> {FALSE}, stats |-> {HandlerStats(v) : v \in StatVals},
                 loads |-> {ZeroLoadStats, LoadStats(1, 0, 0)},
                 hkIter |-> IF long = "hk" THEN MaxSchedIter ELSE 1,
                 ldIter |-> IF long = "ld" THEN MaxSchedIter ELSE 1,
                 stopCalls |-> 0, trace |-> FALSE, timed |-> FALSE]
    /\ \E baseline \in Baselines, ceiling \in Ceilings, dynamic \in BOOLEAN :
          /\ flags = [HousekeepingInterval |-> baseline, LoadreaderInterval |-> baseline,
                      MaxLoadReaderInterval |-> ceiling]
          /\ c = NewContainerData(flags, ceiling, dynamic, TRUE, FALSE)
    /\ InitTracker

NextSched == Start \/ HkLoop \/ HkWork \/ LdLoop \/ LdWork

SpecSched == InitSched /\ [][NextSched]_vars

\* ---------------------------------------------------- housekeeping alone

\* Iterations of the housekeeping loop SpecHk runs.
MaxHkRuns == 5

\* A fresh tracker with baseline 1 s and ceiling 8 s and dynamic
\* housekeeping; every call succeeds, samples vary and are recorded in
\* hk.hist; time passes, so that an iteration may time out.
InitHk ==
    /\ env = [errs |-> {FALSE}, stats |-> {HandlerStats(v) : v \in StatVals},
              loads |-> {ZeroLoadStats},
              hkIter |-> MaxHkRuns, ldIter |-> 0, stopCalls |-> 0, trace |-> TRUE, timed |-> FALSE]
    /\ flags = [DefaultFlags EXCEPT !.HousekeepingInterval = 1]
    /\ \E loadReader \in BOOLEAN :
          c = NewContainerData(flags, 8, TRUE, loadReader, FALSE)
    /\ InitTracker

NextHk == Start \/ Tick \/ HkTimeout \/ HkLoop \/ HkWork \/ LdBegin

SpecHk == InitHk /\ [][NextHk]_vars

\* ----------------------------------------------------------- timed sleeps

\* Iterations of the housekeeping loop SpecWake runs; the load reader loop
\* runs one less.
MaxWakeIter == 2

\* Both loops with timed sleeps: baseline 1 tick, ceiling 2 ticks, every call
\* succeeds, samples repeat so that the intervals grow.
InitWake ==
    /\ env = [errs |-> {FALSE}, stats |-> {HandlerStats(1)}, loads |-> {ZeroLoadStats},
              hkIter |-> MaxWakeIter, ldIter |-> MaxWakeIter - 1, stopCalls |-> 0,
              trace |-> FALSE, timed |-> TRUE]
    /\ flags = DefaultFlags
    /\ c = NewContainerData(flags, 2, TRUE, TRUE, FALSE)
    /\ InitTracker

NextWake == Start \/ Tick \/ HkTimeout \/ LdTimeout \/ HkLoop \/ HkWork \/ LdLoop \/ LdWork

SpecWake == InitWake /\ [][NextWake]_vars

\* ------------------------------------------------- load attached to samples

\* Both loops with time passing and task counts that change: one
\* housekeeping iteration beside two load probes, every call succeeds.
InitMilli ==
    /\ env = [errs |-> {FALSE}, stats |-> {HandlerStats(1)},
              loads |-> {ZeroLoadStats, LoadStats(1, 0, 0)},
              hkIter |-> 1, ldIter |-> 2, stopCalls |-> 0,
              trace |-> FALSE, timed |-> FALSE]
    /\ flags = DefaultFlags
    /\ c = NewContainerData(flags, 2, TRUE, TRUE, FALSE)
    /\ InitTracker

NextMilli == Start \/ Tick \/ HkTimeout \/ LdTimeout \/ HkLoop \/ HkWork \/ LdLoop \/ LdWork

SpecMilli == InitMilli /\ [][NextMilli]_vars

\* ----------------------------------------------------------- updateLoadAvg

\* Calls of updateLoadAvg SpecLoad makes.
MaxObserve == 4

\* The task counts a probe may carry.
TaskCounts == 0..1

\* updateLoadAvg called with any sample, any time after the last probe; call
\* keeps the arguments and the average before the call.
Observe ==
    /\ call.fn \in {"none", "updateLoadAvg"}
    /\ (call.fn = "updateLoadAvg") => call.n < MaxObserve
    /\ \E r \in TaskCounts, u \in TaskCounts, w \in TaskCounts, dt \in 0..MaxDt :
          /\ c' = [c EXCEPT !.loadAvg = UpdateLoadAvg(c.loadAvg, dt, LoadStats(r, u, w)),
                            !.sinceLoadAvgLastProbeTime = 0]
          /\ call' = [fn |-> "updateLoadAvg", prev |-> c.loadAvg, newLoad |-> r + u + w,
                      dt |-> dt, n |-> IF call.fn = "none" THEN 1 ELSE call.n + 1]
    /\ UNCHANGED <<callers, storage, env, flags, handler, reader, memoryCache,
                   hk, hkw, ld, ldw, stopper, aborted>>

InitLoad ==
    /\ env = [errs |-> {FALSE}, stats |-> {HandlerStats(1)}, loads |-> {ZeroLoadStats},
              hkIter |-> 0, ldIter |-> 0, stopCalls |-> 0,
              trace |-> FALSE, timed |-> FALSE]
    /\ flags = DefaultFlags
    /\ c = NewContainerData(flags, 1, FALSE, TRUE, FALSE)
    /\ InitTracker

NextLoad == Observe

SpecLoad == InitLoad /\ [][NextLoad]_vars

\* --------------------------------------------------------- GetProcessList

\* Body rows of the ps output GetProcessList is given.
MaxRows == 2

\* One entry "n:subsystem:path" of the cgroup column of ps.
CgroupEntry(subsystem, path) == [subsystem |-> subsystem, path |-> path]

\* The cgroup column of a row: "-", or entries joined by commas.
NoCgroups == [dash |-> TRUE, entries |-> <<>>]
Cgroups(entries) == [dash |-> FALSE, entries |-> entries]

CgroupColumns ==
    { NoCgroups,
      Cgroups(<<CgroupEntry("cpu", "/a")>>),
      Cgroups(<<CgroupEntry("devices", "/a")>>),
      Cgroups(<<CgroupEntry("devices", "/a"), CgroupEntry("cpu", "/a")>>),
      Cgroups(<<CgroupEntry("cpu", "/cadvisor"), CgroupEntry("devices", "/cadvisor"),
                CgroupEntry("cpu", "/cadvisor")>>),
      Cgroups(<<CgroupEntry("devices", "/"), CgroupEntry("cpu", "/")>>) }

\* A body line after strings.Fields: fields[10], fields[11], and whether
\* the line has the 12 fields expected; the numeric fields parse.
PsRows == [comm : {"ps", "sh"}, cgroups : CgroupColumns, enough : BOOLEAN]

\* The names a tracker may have, "/" is the root.
ContainerNames == {"/", "/a", "/cadvisor"}

\* getCgroupPath: "-" is the root; otherwise cgroupPathRegExp takes the
\* path of the leftmost devices entry up to the next ',', ';' or '$', so the
\* entry must have a comma after it; without a match the root is returned.
GetCgroupPath(cgroups) ==
    LET devices == {i \in 1..Len(cgroups.entries) :
                       cgroups.entries[i].subsystem = "devices"}
        first == CHOOSE i \in devices : \A k \in devices : i <= k
    IN  IF cgroups.dash THEN "/"
        ELSE IF devices = {} \/ first = Len(cgroups.entries) THEN "/"
        ELSE cgroups.entries[first].path

\* Mutant: every ps row of the agent's cgroup is dropped, in the host
\* namespace too.
ProcessLine_DropsEveryPs(name, cadvisorContainer, inHostNamespace, row) ==
    LET isRoot == name = "/"
        cgroup == GetCgroupPath(row.cgroups)
    IN  IF cadvisorContainer = cgroup /\ row.comm = "ps" THEN <<>>
        ELSE IF isRoot \/ name = cgroup
             THEN <<[Cmd |-> row.comm, CgroupPath |-> IF isRoot THEN cgroup ELSE ""]>>
             ELSE <<>>

\* Lines 288-317, one body line: what it appends to processes.
ProcessLine(name, cadvisorContainer, inHostNamespace, row) ==
    LET isRoot == name = "/"
        cgroup == GetCgroupPath(row.cgroups)
    IN  IF ~inHostNamespace /\ cadvisorContainer = cgroup /\ row.comm = "ps" THEN <<>>
        ELSE IF isRoot \/ name = cgroup
             THEN <<[Cmd |-> row.comm, CgroupPath |-> IF isRoot THEN cgroup ELSE ""]>>
             ELSE <<>>

\* What GetProcessList returns.
NoProcesses == [err |-> TRUE, processes |-> <<>>]

\* The loop of lines 250-318 over the body lines from line i on; a line with
\* too few fields ends the call with an error and no list.
RECURSIVE ProcessLines(_, _, _, _, _, _)
ProcessLines(name, cadvisorContainer, inHostNamespace, rows, i, processes) ==
    IF i > Len(rows) THEN [err |-> FALSE, processes |-> processes]
    ELSE IF ~rows[i].enough THEN NoProcesses
    ELSE ProcessLines(name, cadvisorContainer, inHostNamespace, rows, i + 1,
                      processes \o ProcessLine(name, cadvisorContainer,
                                               inHostNamespace, rows[i]))

RECURSIVE PsOutputs(_)
PsOutputs(n) ==
    IF n = 0 THEN {<<>>}
    ELSE PsOutputs(n - 1) \cup
         {Append(rows, r) : rows \in {s \in PsOutputs(n - 1) : Len(s) = n - 1}, r \in PsRows}

\* GetProcessList of a tracker, called once, for any ps output of up to
\* MaxRows lines; call keeps the arguments and the result.
GetProcessList ==
    /\ call.fn = "none"
    /\ \E name \in ContainerNames, cadvisorContainer \in {"/", "/cadvisor"},
          inHostNamespace \in BOOLEAN, rows \in PsOutputs(MaxRows) :
          call' = [fn |-> "GetProcessList", name |-> name,
                   cadvisorContainer |-> cadvisorContainer,
                   inHostNamespace |-> inHostNamespace, rows |-> rows,
                   result |-> ProcessLines(name, cadvisorContainer, inHostNamespace,
                                           rows, 1, <<>>)]
    /\ UNCHANGED <<callers, storage, env, flags, c, handler, reader, memoryCache,
                   hk, hkw, ld, ldw, stopper, aborted>>

NextPs == GetProcessList

SpecPs == InitLoad /\ [][NextPs]_vars

\* ---------------------------------------------------------------- GetInfo

\* Calls of GetInfo each goroutine makes.
MaxInfoCalls == 2

\* GetInfo, line 132: c.lastUpdatedTime is read, with no lock held.
GetInfoTest(t) ==
    /\ callers[t].pc \in {"idle", "returned"}
    /\ callers[t].calls < MaxInfoCalls
    /\ callers' = [callers EXCEPT ![t] =
                      [IdleCaller EXCEPT !.calls = callers[t].calls + 1,
                                         !.pc = IF c.sinceLastUpdatedTime > FiveSeconds
                                                THEN "updateSpec" ELSE "return"]]
    /\ UNCHANGED <<env, flags, c, handler, reader, memoryCache, hk, hkw, ld, ldw, stopper,
                   aborted, storage, call>>

\* updateSpec, lines 508-530: c.handler.GetSpec(); the error of a dead
\* container is ignored, another one ends GetInfo (line 135), and so does an
\* error of collectorManager.GetSpec; otherwise c.info.Spec is assigned under
\* c.lock.
GetInfoUpdateSpec(t) ==
    /\ callers[t].pc = "updateSpec"
    /\ \E spec \in SpecVals, err \in env.errs, cmErr \in env.errs :
          LET failed == (err /\ handler.exists) \/ (~err /\ cmErr)
          IN  /\ c' = IF err \/ cmErr THEN c ELSE [c EXCEPT !.info.Spec = spec]
              /\ callers' = [callers EXCEPT
                               ![t].pc = IF failed THEN "idle" ELSE "updateSubcontainers",
                               ![t].early = handler.sinceGetSpec <= FiveSeconds]
    /\ handler' = [HandlerCall(handler) EXCEPT !.sinceGetSpec = 0]
    /\ UNCHANGED <<env, flags, reader, memoryCache, hk, hkw, ld, ldw, stopper,
                   aborted, storage, call>>

\* updateSubcontainers, lines 694-709: ListContainers, sorted, assigned to
\* c.info.Subcontainers under c.lock; errors as in updateSpec.
GetInfoUpdateSubcontainers(t) ==
    /\ callers[t].pc = "updateSubcontainers"
    /\ \E subcontainers \in SubcontainerLists, err \in env.errs :
          /\ c' = IF err THEN c
                  ELSE [c EXCEPT !.info.Subcontainers = SortSubcontainers(subcontainers)]
          /\ callers' = [callers EXCEPT
                           ![t].pc = IF err /\ handler.exists THEN "idle"
                                     ELSE "setLastUpdatedTime"]
    /\ handler' = HandlerCall(handler)
    /\ UNCHANGED <<env, flags, reader, memoryCache, hk, hkw, ld, ldw, stopper,
                   aborted, storage, call>>

\* GetInfo, line 141: c.lastUpdatedTime = time.Now(), with no lock held.
GetInfoSetLastUpdatedTime(t) ==
    /\ callers[t].pc = "setLastUpdatedTime"
    /\ c' = [c EXCEPT !.sinceLastUpdatedTime = 0]
    /\ callers' = [callers EXCEPT ![t].pc = "return"]
    /\ UNCHANGED <<env, flags, handler, reader, memoryCache, hk, hkw, ld, ldw, stopper,
                   aborted, storage, call>>

\* GetInfo, lines 144-146: under c.lock, return &c.info.  The caller holds
\* the address of the tracker's own containerInfo: what it reads through it
\* is c.info, what it assigns through it is assigned to c.info.
GetInfoReturn(t) ==
    /\ callers[t].pc = "return"
    /\ callers' = [callers EXCEPT ![t].pc = "returned", ![t].snapshot = c.info]
    /\ UNCHANGED <<env, flags, c, handler, reader, memoryCache, hk, hkw, ld, ldw, stopper,
                   aborted, storage, call>>

\* The caller assigns to the Spec of the ContainerInfo GetInfo gave it.
CallerWrites(t) ==
    /\ callers[t].pc = "returned"
    /\ ~callers[t].wrote
    /\ c' = [c EXCEPT !.info.Spec = 0]
    /\ callers' = [callers EXCEPT ![t].wrote = TRUE]
    /\ UNCHANGED <<env, flags, handler, reader, memoryCache, hk, hkw, ld, ldw, stopper,
                   aborted, storage, call>>

\* Five seconds pass.
InfoTick ==
    /\ c.sinceLastUpdatedTime <= FiveSeconds \/ handler.sinceGetSpec <= FiveSeconds
    /\ c' = [c EXCEPT !.sinceLastUpdatedTime = Min(@ + 1, FiveSeconds + 1)]
    /\ handler' = [handler EXCEPT !.sinceGetSpec = Min(@ + 1, FiveSeconds + 1)]
    /\ UNCHANGED <<env, flags, reader, memoryCache, hk, hkw, ld, ldw, stopper,
                   aborted, callers, storage, call>>

GetInfo(t) ==
    \/ GetInfoTest(t) \/ GetInfoUpdateSpec(t) \/ GetInfoUpdateSubcontainers(t)
    \/ GetInfoSetLastUpdatedTime(t) \/ GetInfoReturn(t)

\* A constructed tracker whose GetInfo is called by two goroutines; calls
\* into the handler may fail and the container may die.
InitInfo ==
    /\ env = [errs |-> BOOLEAN, stats |-> {HandlerStats(1)}, loads |-> {ZeroLoadStats},
              hkIter |-> 0, ldIter |-> 0, stopCalls |-> 0, trace |-> FALSE, timed |-> FALSE]
    /\ flags = DefaultFlags
    /\ c = NewContainerData(flags, 2, TRUE, FALSE, FALSE)
    /\ InitTracker

NextInfo ==
    \/ \E t \in Callers : GetInfo(t) \/ CallerWrites(t)
    \/ InfoTick
    \/ ContainerDies

SpecInfo == InitInfo /\ [][NextInfo]_vars

\* ------------------------------------------------- influxdbStorage.AddStats

\* bufferDuration, in ticks of the storage clock.
BufferDuration == 1

\* Calls of AddStats each goroutine makes.
MaxAddCalls == 2

\* The storage with writer t changed to w.
WithWriter(t, w) == [storage EXCEPT !.writers[t] = w]

\* AddStats, lines 223-227: a nil sample returns at once.
SinkAddStats(t) ==
    /\ storage.writers[t].pc = "idle"
    /\ storage.writers[t].calls < MaxAddCalls
    /\ \E nilStats \in BOOLEAN :
          storage' = WithWriter(t, [storage.writers[t] EXCEPT
                                      !.calls = @ + 1, !.ret = "nil",
                                      !.pc = IF nilStats THEN "idle" ELSE "lock"])
    /\ UNCHANGED <<env, tracker, call>>

\* Mutant: the lock excludes nobody.
SinkLock_NoExclusion(t) ==
    /\ storage.writers[t].pc = "lock"
    /\ storage' = [WithWriter(t, [storage.writers[t] EXCEPT !.pc = "appendStats"])
                     EXCEPT !.lock = t]
    /\ UNCHANGED <<env, tracker, call>>

\* Line 230: self.lock.Lock().
SinkLock(t) ==
    /\ storage.writers[t].pc = "lock"
    /\ storage.lock = 0
    /\ storage' = [WithWriter(t, [storage.writers[t] EXCEPT !.pc = "appendStats"])
                     EXCEPT !.lock = t]
    /\ UNCHANGED <<env, tracker, call>>

\* The point number j of the sample of writer t's current call.
Point(t, j) == <<t, storage.writers[t].calls, j>>

\* Line 233: the points of containerStatsToPoints are appended.
SinkAppendStats(t) ==
    /\ storage.writers[t].pc = "appendStats"
    /\ storage' = [WithWriter(t, [storage.writers[t] EXCEPT !.pc = "appendFs"])
                     EXCEPT !.points = Append(@, Point(t, 1)),
                            !.appended = @ \cup {Point(t, 1)}]
    /\ UNCHANGED <<env, tracker, call>>

\* Line 234: the points of containerFilesystemStatsToPoints are appended.
SinkAppendFs(t) ==
    /\ storage.writers[t].pc = "appendFs"
    /\ storage' = [WithWriter(t, [storage.writers[t] EXCEPT !.pc = "readyToFlush"])
                     EXCEPT !.points = Append(@, Point(t, 2)),
                            !.appended = @ \cup {Point(t, 2)}]
    /\ UNCHANGED <<env, tracker, call>>

\* defaultReadyToFlush, line 220.
DefaultReadyToFlush(s) == s.sinceLastWrite >= BufferDuration

\* Lines 235-236: if self.readyToFlush() { pointsToFlush = self.points.
SinkReadyToFlush(t) ==
    /\ storage.writers[t].pc = "readyToFlush"
    /\ storage' = WithWriter(t,
                     IF DefaultReadyToFlush(storage)
                     THEN [storage.writers[t] EXCEPT !.pc = "empty",
                                                     !.pointsToFlush = storage.points]
                     ELSE [storage.writers[t] EXCEPT !.pc = "unlock"])
    /\ UNCHANGED <<env, tracker, call>>

\* Line 237: self.points = make([]*write.Point, 0).
SinkEmpty(t) ==
    /\ storage.writers[t].pc = "empty"
    /\ storage' = [WithWriter(t, [storage.writers[t] EXCEPT !.pc = "setLastWrite"])
                     EXCEPT !.points = <<>>]
    /\ UNCHANGED <<env, tracker, call>>

\* Line 238: self.lastWrite = time.Now().
SinkSetLastWrite(t) ==
    /\ storage.writers[t].pc = "setLastWrite"
    /\ storage' = [WithWriter(t, [storage.writers[t] EXCEPT !.pc = "unlock"])
                     EXCEPT !.sinceLastWrite = 0]
    /\ UNCHANGED <<env, tracker, call>>

\* Lines 231 and 240-241: the deferred Unlock; a non-empty batch is written.
SinkUnlock(t) ==
    /\ storage.writers[t].pc = "unlock"
    /\ storage' = [WithWriter(t, [storage.writers[t] EXCEPT
                                     !.pc = IF Len(storage.writers[t].pointsToFlush) > 0
                                            THEN "write" ELSE "idle"])
                     EXCEPT !.lock = 0]
    /\ UNCHANGED <<env, tracker, call>>

\* Lines 242-247: the batch is copied and handed to WritePoint, with no lock
\* held.
SinkWrite(t) ==
    /\ storage.writers[t].pc = "write"
    /\ storage' = [WithWriter(t, [storage.writers[t] EXCEPT
                                     !.pc = "WritePoint",
                                     !.inFlight = storage.writers[t].pointsToFlush,
                                     !.pointsToFlush = <<>>])
                     EXCEPT !.batches = Append(@, storage.writers[t].pointsToFlush)]
    /\ UNCHANGED <<env, tracker, call>>

\* Mutant: the points of a failed write are put back into the buffer.
SinkWritePoint_PutsBack(t) ==
    /\ storage.writers[t].pc = "WritePoint"
    /\ \E err \in env.errs :
          storage' = [WithWriter(t, [storage.writers[t] EXCEPT
                                       !.pc = "idle", !.inFlight = <<>>,
                                       !.ret = IF err THEN "writeErr" ELSE "nil"])
                        EXCEPT !.points = IF err THEN storage.writers[t].inFlight \o @
                                          ELSE @,
                               !.failed =
                                  IF err THEN @ \cup {storage.writers[t].inFlight} ELSE @]
    /\ UNCHANGED <<env, tracker, call>>

\* Lines 247-252: WritePoint returns; its error is returned by AddStats and
\* nothing else is done about it.  failed keeps the numbers of the batches
\* whose write failed.
SinkWritePoint(t) ==
    /\ storage.writers[t].pc = "WritePoint"
    /\ \E err \in env.errs :
          storage' = [WithWriter(t, [storage.writers[t] EXCEPT
                                       !.pc = "idle", !.inFlight = <<>>,
                                       !.ret = IF err THEN "writeErr" ELSE "nil"])
                        EXCEPT !.failed =
                                  IF err THEN @ \cup {storage.writers[t].inFlight} ELSE @]
    /\ UNCHANGED <<env, tracker, call>>

\* One tick of the storage clock passes.
SinkTick ==
    /\ storage.sinceLastWrite < BufferDuration
    /\ storage' = [storage EXCEPT !.sinceLastWrite = @ + 1]
    /\ UNCHANGED <<env, tracker, call>>

AddStats(t) ==
    \/ SinkAddStats(t) \/ SinkLock(t) \/ SinkAppendStats(t) \/ SinkAppendFs(t)
    \/ SinkReadyToFlush(t) \/ SinkEmpty(t) \/ SinkSetLastWrite(t) \/ SinkUnlock(t)
    \/ SinkWrite(t) \/ SinkWritePoint(t)

\* The storage driver with two goroutines adding samples; writes may fail.
InitSink ==
    /\ env = [errs |-> BOOLEAN, stats |-> {HandlerStats(1)}, loads |-> {ZeroLoadStats},
              hkIter |-> 0, ldIter |-> 0, stopCalls |-> 0, trace |-> FALSE, timed |-> FALSE]
    /\ flags = DefaultFlags
    /\ c = NewContainerData(flags, 2, TRUE, FALSE, FALSE)
    /\ InitTracker

NextSink == (\E t \in Writers : AddStats(t)) \/ SinkTick

SpecSink == InitSink /\ [][NextSink]_vars

\* ------------------------------------------------------------------ claims

RECURSIVE Pow2(_)
Pow2(n) == IF n = 0 THEN 1 ELSE 2 * Pow2(n - 1)

\* C1: with dynamic housekeeping enabled and baseline <= ceiling, after N
\* consecutive no-change signals (run = N) each interval is
\* min(baseline * 2^N, ceiling); a change signal (run = 0) makes it the baseline.
C1_BackoffClosedForm ==
    c.allowDynamicHousekeeping =>
        /\ flags.HousekeepingInterval <= c.maxHousekeepingInterval =>
              c.housekeepingInterval =
                  Min(flags.HousekeepingInterval * Pow2(hk.run), c.maxHousekeepingInterval)
        /\ flags.LoadreaderInterval <= flags.MaxLoadReaderInterval =>
              c.loadreaderInterval =
                  Min(flags.LoadreaderInterval * Pow2(ld.run), flags.MaxLoadReaderInterval)

\* C1 witness: two no-change signals in a row were clamped by the ceiling.
C1_Witness ==
    /\ c.allowDynamicHousekeeping
    /\ flags.HousekeepingInterval = 1 /\ c.maxHousekeepingInterval = 2
    /\ hk.run = 2 /\ c.housekeepingInterval = 2

\* GetStats returned (nil, error) and Exists() answered false.
DeadNil(w) == w.got = "nil" /\ w.statsErr /\ w.sawExists = "no"

\* C2: when GetStats returns (nil, error) and Exists() is false, updateStats
\* returns nil without adding to the cache and without an error log, and the
\* loop goes on to schedule its next iteration.
C2_DeadContainerIsQuiet ==
    /\ [](DeadNil(hkw) =>
             hkw.pc = "done" /\ hkw.ret = "nil" /\ ~hkw.pushed /\ ~hkw.logged)
    /\ [][(hkw.pc = "ExistsAfterGetStats" /\ hkw.stats.nil /\ ~handler.exists
              /\ hkw' # hkw)
            => (DeadNil(hkw') /\ memoryCache' = memoryCache /\ c' = c)]_vars
    /\ [][(DeadNil(hkw) /\ hkw' # hkw)
            => (hk.pc = "wait" /\ hk'.pc = "after"
                  /\ memoryCache' = memoryCache /\ c' = c)]_vars
    /\ [][(hk.pc = "after" /\ hk' # hk) => hk'.pc = "sleep"]_vars

\* C2 witness: such an iteration has returned.
C2_Witness == DeadNil(hkw) /\ hkw.pc = "done" /\ hk.pc = "wait"

\* C3, as claimed: when the container is destroyed during an iteration, an
\* error is logged for that iteration only if one of its errors was returned
\* while the container still existed (or by the cache), in either loop; and
\* the sample of a failed GetStats is pushed only if Exists() answered true.
C3_NoLogForDeadContainer ==
    /\ (hkw.died /\ hkw.logged) => hkw.liveErr
    /\ (ldw.died /\ ldw.logged) => ldw.liveErr
    /\ (hkw.pushed /\ hkw.statsErr) => hkw.sawExists = "yes"

\* GetStats returned (sample, error) and Exists() answered true.
PartialLive(w) == w.got = "stats" /\ w.statsErr /\ w.sawExists = "yes"

\* C4: a sample returned with an error by a live container is added to the
\* cache first; the stats error is the result only after that push, and the
\* push is skipped only for a failing ContainerReference or AddStats.
C4_PartialPushedThenReported ==
    /\ []((PartialLive(hkw) /\ hkw.ret = "statsErr") => hkw.pushed)
    /\ []((PartialLive(hkw) /\ hkw.pushed) =>
             hkw.ret = "statsErr" /\ hkw.pc \in {"allowErrorLogging", "log", "done"})
    /\ []((PartialLive(hkw) /\ hkw.pc \in {"allowErrorLogging", "log", "done"}
             /\ ~hkw.pushed) => hkw.ret \in {"referenceErr", "addStatsErr", "nil"})
    /\ [][(hkw'.pushed /\ ~hkw.pushed)
            => memoryCache' = CacheAdd(memoryCache, hkw.stats)]_vars

\* C4 witness: the partial sample was pushed and the stats error returned.
C4_Witness ==
    /\ PartialLive(hkw) /\ hkw.pushed /\ hkw.ret = "statsErr"
    /\ Len(memoryCache) > 0

\* C5: the load average is >= 0 exactly when an iteration of the load-reader
\* loop has updated the smoother, and exactly -1 before; without a load
\* reader the loop never runs and the load average stays -1.
C5_LoadAvgSentinel ==
    /\ (c.loadAvg >= 0) <=> (ld.probed > 0)
    /\ ld.probed = 0 => c.loadAvg = -Scale
    /\ ~c.loadReader =>
          /\ ld.pc \in {"idle", "begin", "terminated"}
          /\ ldw.pc = "none"
          /\ c.loadAvg = -Scale

\* C5 witness: a probe succeeded.
C5_Witness == c.loadAvg >= 0 /\ ld.probed > 0 /\ ldw.pc = "done"

\* C6: a loop never waits in doWithTimeout past PanicTimeout: the timer ends
\* the wait, the dump is written, then the process aborts and nothing runs
\* any more; a pending stop signal changes none of this.
C6_TimeoutAborts ==
    /\ [](hk.pc = "wait" => hk.elapsed < PanicTimeout)
    /\ [](ld.pc = "wait" => ld.elapsed < PanicTimeout)
    /\ [][/\ hk.pc = "timedout" => hk'.pc \in {"timedout", "dumped"}
          /\ hk.pc = "dumped" => hk'.pc = "dumped"
          /\ ld.pc = "timedout" => ld'.pc \in {"timedout", "dumped"}
          /\ ld.pc = "dumped" => ld'.pc = "dumped"]_vars
    /\ [](aborted => (hk.pc = "dumped" \/ ld.pc = "dumped"))
    /\ [][~aborted]_vars
    /\ ((hk.pc = "timedout" \/ ld.pc = "timedout") ~> aborted)

\* C6 witness: the process aborted on the housekeeping timer while the
\* housekeeping stop signal was pending and updateStats had not returned.
C6_Witness ==
    /\ aborted /\ hk.pc = "dumped"
    /\ c.stop = 1
    /\ hkw.pc \notin {"none", "done"}

\* C7: a loop that finds its stop signal at the select starts no iteration
\* and returns; an iteration only starts at the select with no signal there;
\* a sleep is followed by the select; and once the signal is in the channel
\* of a started loop, the loop terminates (or the process aborted).
C7_StopTerminates ==
    /\ [][(hk.pc = "select" /\ c.stop > 0 /\ hk'.pc # "select")
            => hk'.pc = "deferredStop"]_vars
    /\ [][(ld.pc = "select" /\ c.loadStop > 0 /\ ld'.pc # "select")
            => ld'.pc = "terminated"]_vars
    /\ [][(hk.pc # "wait" /\ hk'.pc = "wait") => (hk.pc = "select" /\ c.stop = 0)]_vars
    /\ [][(ld.pc # "wait" /\ ld'.pc = "wait")
            => (ld.pc = "select" /\ c.loadStop = 0)]_vars
    /\ [][(hk.pc = "sleep" /\ hk'.pc # "sleep") => hk'.pc = "select"]_vars
    /\ [][(ld.pc = "sleep" /\ ld'.pc # "sleep") => ld'.pc = "select"]_vars
    /\ ((c.stop > 0 /\ hk.pc # "idle") ~> (hk.pc = "terminated" \/ aborted))
    /\ ((c.loadStop > 0 /\ ld.pc # "idle") ~> (ld.pc = "terminated" \/ aborted))

\* C7 witness: both loops ran an iteration and terminated on their signals.
C7_Witness ==
    /\ hk.pc = "terminated" /\ hk.iter > 0
    /\ ld.pc = "terminated" /\ ld.iter > 0
    /\ stopper.pc = "returned" /\ c.stop = 0 /\ c.loadStop = 0

C10_NoUseAfterShutdown == handler.lateCalls = 0 /\ reader.lateReads = 0

\* C12, as claimed: no error log is emitted while the tracker's previous
\* error log is no more than one minute old, whichever goroutine emits it.
C12_LogsAMinuteApart == ~hkw.early /\ ~ldw.early

\* C17: without dynamic housekeeping both intervals stay at their baselines,
\* whatever samples the iterations observe.
C17_StaticIntervals ==
    ~c.allowDynamicHousekeeping =>
        /\ c.housekeepingInterval = flags.HousekeepingInterval
        /\ c.loadreaderInterval = flags.LoadreaderInterval

\* C17 witness: dynamic housekeeping is off, the ceiling is above the
\* baseline, the two newest samples are equal after three cycles and a probe
\* returned the task stats already held.
C17_Witness ==
    /\ ~c.allowDynamicHousekeeping
    /\ flags.HousekeepingInterval < c.maxHousekeepingInterval
    /\ hk.iter >= 3 /\ hk.pc = "sleep"
    /\ Len(memoryCache) = 2 /\ StatsEq(memoryCache[1], memoryCache[2])
    /\ ld.iter >= 1 /\ ld.probed > 0 /\ c.taskStats = ZeroLoadStats

\* The samples of the cache are in strictly increasing order of Timestamp.
RECURSIVE StrictlyIncreasing(_)
StrictlyIncreasing(cache) ==
    \/ Len(cache) < 2
    \/ /\ cache[1].Timestamp < cache[2].Timestamp
       /\ StrictlyIncreasing(Tail(cache))

\* C13: at most one goroutine of updateStats is in flight, it runs only
\* while its loop is inside doWithTimeout, each push is that of the current
\* iteration, and with Timestamps that increase from one GetStats call to
\* the next the cached samples are in strictly increasing Timestamp order.
C13_OneHousekeepingInFlight ==
    /\ hk.inflight <= 1
    /\ hk.inflight = (IF hkw.pc = "none" THEN 0 ELSE 1)
    /\ hkw.pc # "none" => hk.pc \in {"wait", "timedout", "dumped"}
    /\ hkw.pushed => memoryCache[Len(memoryCache)].Timestamp = hk.iter
    /\ StrictlyIncreasing(memoryCache)

\* C13 witness: the third iteration is in flight and the cache holds the
\* samples of the first two.
C13_Witness ==
    /\ hk.iter = 3 /\ hk.inflight = 1 /\ hkw.pc = "AddStats"
    /\ Len(memoryCache) = 2
    /\ memoryCache[1].Timestamp = 1 /\ memoryCache[2].Timestamp = 2

\* All samples pushed so far are equal.
AllEqual(hist) == \A i \in 1..Len(hist) : hist[i] = hist[1]

\* The housekeeping loop has finished its iteration number k.
AfterIteration(k) == hk.iter = k /\ hk.pc \in {"sleep", "select"}

\* C16, as claimed: on a fresh tracker with baseline 1 s and ceiling 8 s the
\* intervals, initially and after each of 4 iterations pushing equal samples,
\* are 1, 2, 4, 8, 8 s, and 1 s after a fifth iteration with a differing one.
C16_ScenarioAsClaimed ==
    /\ hk.iter = 0 => c.housekeepingInterval = 1
    /\ \A k \in 1..4 :
          (AfterIteration(k) /\ Len(hk.hist) = k /\ AllEqual(hk.hist))
             => c.housekeepingInterval = <<2, 4, 8, 8>>[k]
    /\ (AfterIteration(5) /\ Len(hk.hist) = 5 /\ AllEqual(SubSeq(hk.hist, 1, 4))
          /\ hk.hist[5] # hk.hist[4]) => c.housekeepingInterval = 1

\* C16, amended: the intervals are 1, 1, 2, 4, 8 s (the first iteration
\* leaves a single sample in the cache, which is no signal), and 1 s after a
\* fifth iteration that pushes a differing sample.
C16_ScenarioOfTheCode ==
    /\ hk.iter = 0 => c.housekeepingInterval = 1
    /\ \A k \in 1..4 :
          (AfterIteration(k) /\ Len(hk.hist) = k /\ AllEqual(hk.hist))
             => c.housekeepingInterval = <<1, 2, 4, 8>>[k]
    /\ (AfterIteration(5) /\ Len(hk.hist) = 5 /\ AllEqual(SubSeq(hk.hist, 1, 4))
          /\ hk.hist[5] # hk.hist[4]) => c.housekeepingInterval = 1

\* C16 witness: four equal samples brought the interval to 8 s and a fifth,
\* differing one back to 1 s.
C16_Witness ==
    /\ AfterIteration(5) /\ hk.hist = <<1, 1, 1, 1, 2>>
    /\ c.housekeepingInterval = 1

\* C11, as claimed: what GetInfo returned stays as it was when it was
\* returned, whatever the tracker refreshes afterwards, unless the caller
\* changed it itself; and the tracker's stored spec is never a value a caller
\* wrote into what it was given.
C11_InfoIsACopy ==
    /\ \A t \in Callers :
          (callers[t].pc = "returned" /\ ~callers[t].wrote)
             => c.info = callers[t].snapshot
    /\ c.info.Spec \in SpecVals

\* C15, as claimed: no GetSpec call made by GetInfo comes 5 seconds or less
\* after the previous one.
C15_RefreshEveryFiveSeconds == \A t \in Callers : ~callers[t].early

\* The number of times point p occurs in the sequence s.
Occurrences(s, p) == Cardinality({i \in DOMAIN s : s[i] = p})

\* The batches concatenated.
RECURSIVE Flatten(_)
Flatten(batches) ==
    IF batches = <<>> THEN <<>> ELSE Head(batches) \o Flatten(Tail(batches))

\* The writers inside the critical section of AddStats.
InCriticalSection ==
    {t \in Writers : storage.writers[t].pc \in
        {"appendStats", "appendFs", "readyToFlush", "empty", "setLastWrite", "unlock"}}

\* The points buffered: self.points, but for the moment inside the critical
\* section at which they are taken and the buffer is not emptied yet.
Buffered ==
    IF \E t \in Writers : storage.writers[t].pc = "empty" THEN <<>> ELSE storage.points

\* The number of taken batches that hold p: those written and those a writer
\* is about to write.
TimesTaken(p) ==
    Occurrences(Flatten(storage.batches), p)
      + Cardinality({t \in Writers :
                        Occurrences(storage.writers[t].pointsToFlush, p) > 0})

\* C14: AddStats appends, tests, takes, empties and sets lastWrite in one
\* critical section: one writer at a time is inside it, and every point
\* ever appended is either still buffered or in exactly one taken batch.
C14_BatchesAreAtomic ==
    /\ Cardinality(InCriticalSection) <= 1
    /\ \A t \in Writers : (t \in InCriticalSection) <=> (storage.lock = t)
    /\ \A p \in storage.appended :
          Occurrences(Buffered, p) + TimesTaken(p) = 1
    /\ \A t \in Writers :
          storage.writers[t].pc = "setLastWrite" =>
              (storage.points = <<>> /\ storage.writers[t].pointsToFlush # <<>>)

\* C14 witness: both goroutines have added samples, two batches were
\* written and a later sample is buffered.
C14_Witness ==
    /\ Len(storage.batches) = 2
    /\ \E i \in 1..2 : \E p, q \in DOMAIN storage.batches[i] :
          storage.batches[i][p][1] = 1 /\ storage.batches[i][q][1] = 2
    /\ storage.points # <<>>

\* A scheduling step of a loop (before, after): the next wake is at least
\* current after the last one, and a wake that is overdue is taken at now
\* (the new last wake is the present moment, not a moment in the past).
ScheduledRight(before, after, current) ==
    /\ before.sinceLast + after.sleepLeft >= current
    /\ after.sinceLast = 0
    /\ after.skipped <=> after.sleepLeft = 0

\* C18: when a loop schedules its next wake, next - last is at least the
\* current interval; if the clock is already past the jittered target it
\* does not sleep and takes now for last, so that the wake after that one is
\* again scheduled at least the current interval later; and a sleep ends
\* only when its time is over.
C18_NoCatchUpBurst ==
    /\ [][(hk.pc = "after" /\ hk'.pc = "sleep")
            => ScheduledRight(hk, hk', c'.housekeepingInterval)]_vars
    /\ [][(ld.pc = "wait" /\ ld'.pc = "sleep")
            => ScheduledRight(ld, ld', c'.loadreaderInterval)]_vars
    /\ [][(hk.pc = "sleep" /\ hk'.pc # "sleep") => hk.sleepLeft = 0]_vars
    /\ [][(ld.pc = "sleep" /\ ld'.pc # "sleep") => ld.sleepLeft = 0]_vars

\* C18 witness: the housekeeping loop overran by more than its interval,
\* skipped the sleep and started its next iteration at once.
C18_Witness ==
    /\ hk.pc = "wait" /\ hk.iter = 2 /\ hk.skipped
    /\ hk.sinceLast = 0 /\ hk.sleepLeft = 0

Abs(x) == IF x < 0 THEN -x ELSE x

\* updateLoadAvg has just run on an initialised average, dt > 0 after the
\* last probe.
Smoothed == call.fn = "updateLoadAvg" /\ call.prev >= 0 /\ call.dt > 0

\* The distance between an average and the sample of the last call.
FromRaw(avg) == Abs(avg - call.newLoad * Scale)

\* The average is between a and b.
IsBetween(avg, a, b) == (a <= avg /\ avg <= b) \/ (b <= avg /\ avg <= a)

WellFormed ==
    call.fn = "GetProcessList" /\ \A i \in 1..Len(call.rows) : call.rows[i].enough

\* Row i is the ps command the agent itself ran, seen from a container.
OwnPs(i) ==
    /\ ~call.inHostNamespace
    /\ call.rows[i].comm = "ps"
    /\ GetCgroupPath(call.rows[i].cgroups) = call.cadvisorContainer

\* The rows a tracker reports: all for the root, otherwise those whose
\* parsed cgroup is its name.
Reported ==
    {i \in 1..Len(call.rows) :
        call.name = "/" \/ GetCgroupPath(call.rows[i].cgroups) = call.name}

\* C20: for well-formed rows GetProcessList returns as many entries as there
\* are rows whose parsed cgroup is the tracker's name (all rows for the
\* root) that are not the agent's own ps command seen from a container; the
\* entries carry a cgroup path only for the root tracker.
C20_ProcessListCount ==
    WellFormed =>
        /\ ~call.result.err
        /\ Len(call.result.processes) = Cardinality({i \in Reported : ~OwnPs(i)})
        /\ \A k \in 1..Len(call.result.processes) :
              (call.result.processes[k].CgroupPath # "") => call.name = "/"

\* C20 witness: the root tracker, in a container, lists two rows and leaves
\* out the agent's ps.
C20_Witness ==
    /\ WellFormed
    /\ call.name = "/" /\ Len(call.rows) = 2 /\ Len(call.result.processes) = 1
    /\ \E i \in 1..2 : OwnPs(i)
    /\ call.result.processes[1].CgroupPath = "/a"

\* C21: no sample carries the task stats of a probe together with a load
\* average read before that probe was added to it.
C21_ProbeSeenWhole == ~hkw.torn

\* The writers whose WritePoint call has not returned.
InWritePoint == {t \in Writers : storage.writers[t].pc = "WritePoint"}

\* C22: no two remote writes of the storage are in flight at the same time.
C22_OneWriteInFlight == Cardinality(InWritePoint) <= 1

\* The points of the batches whose write failed.
FailedPoints == UNION {{b[i] : i \in DOMAIN b} : b \in storage.failed}

\* WritePoint returns to writer t in this step.
WriteReturns(t) ==
    storage.writers[t].pc = "WritePoint" /\ storage'.writers[t].pc = "idle"

\* C28: every point is handed to WritePoint at most once; the points of a
\* failed write are in no buffer and in no batch taken later; when a write
\* fails AddStats returns the error, and the return of WritePoint changes
\* neither the buffer nor lastWrite nor the batches handed over.
C28_FailedBatchIsDropped ==
    /\ [](\A p \in storage.appended : Occurrences(Flatten(storage.batches), p) <= 1)
    /\ [](\A p \in FailedPoints :
             /\ Occurrences(Flatten(storage.batches), p) = 1
             /\ Occurrences(storage.points, p) = 0
             /\ \A t \in Writers : Occurrences(storage.writers[t].pointsToFlush, p) = 0)
    /\ [][\A t \in Writers : WriteReturns(t) =>
             /\ (storage'.failed # storage.failed) <=> (storage'.writers[t].ret = "writeErr")
             /\ storage'.points = storage.points
             /\ storage'.sinceLastWrite = storage.sinceLastWrite
             /\ storage'.batches = storage.batches]_vars

\* C28 witness: the write of the first batch failed, its AddStats returned
\* the error, and a later AddStats has handed over a second batch.
C28_Witness ==
    /\ Len(storage.batches) = 2
    /\ storage.batches[1] \in storage.failed
    /\ storage.batches[2] \notin storage.failed
    /\ \E t \in Writers : storage.writers[t].ret = "writeErr"
    /\ \A t \in Writers : storage.writers[t].pc = "idle"

\* load * 1000 rounded to the nearest integer, load in units of 1/Scale.
RoundMilliLoad(loadAvg) == (loadAvg * 1000 + Scale \div 2) \div Scale

\* updateStats attaches the load in this step.
AttachesLoad == hkw.pc = "LoadAvg" /\ hkw'.pc = "TaskStats"

\* C23: a load >= 0 is attached to the sample as round(load * 1000); with a
\* load < 0 the field stays as the handler returned it.
C23_MilliLoadIsRounded ==
    [][AttachesLoad =>
          hkw'.stats.LoadAverage =
              IF c.loadAvg >= 0 THEN RoundMilliLoad(c.loadAvg)
              ELSE hkw.stats.LoadAverage]_vars

\* C24: once Stop has removed the container from the cache, the cache holds
\* no sample of it.
C24_NoSampleAfterRemoval == stopper.removed => memoryCache = <<>>

\* C25: c.loadReader.GetCpuLoad is never called before c.loadReader.Start.
C25_NoReadBeforeStart == reader.earlyReads = 0

\* C26: while the first call of Stop is at one of its two sends, the channel
\* it sends on is empty, so the send does not block, whatever the loops do.
C26_FirstStopDoesNotBlock ==
    stopper.calls = 1 =>
        /\ stopper.pc = "sendStop" => c.stop = 0
        /\ stopper.pc = "sendLoadStop" => c.loadStop = 0

\* C26 witness: the first Stop has returned on a tracker without a load
\* reader, whose load-reader loop never takes the signal.
C26_Witness ==
    /\ stopper.calls = 1 /\ stopper.pc = "returned"
    /\ ~c.loadReader /\ c.loadStop = 1
    /\ hk.iter > 0

\* C27: with baseline <= ceiling, each interval stays between its baseline
\* and its ceiling in every reachable state.
C27_IntervalsWithinBounds ==
    /\ flags.HousekeepingInterval <= c.maxHousekeepingInterval =>
          /\ flags.HousekeepingInterval <= c.housekeepingInterval
          /\ c.housekeepingInterval <= c.maxHousekeepingInterval
    /\ flags.LoadreaderInterval <= flags.MaxLoadReaderInterval =>
          /\ flags.LoadreaderInterval <= c.loadreaderInterval
          /\ c.loadreaderInterval <= flags.MaxLoadReaderInterval

\* C27 witness: the load-reader interval stands at its ceiling of 4 after
\* four equal probes from a baseline of 1: the last doublings were clamped.
C27_Witness ==
    /\ flags.LoadreaderInterval = 1 /\ flags.MaxLoadReaderInterval = 4
    /\ c.loadreaderInterval = 4 /\ ld.run = 4

====
